---- MODULE Spec2Model ----
(***************************************************************************)
(* A model of gitree: the status extractor (internal/gitstatus/status.go)  *)
(* with its concurrent batch entry point, and the repository locator       *)
(* (internal/scanner/scanner.go).                                          *)
(*                                                                         *)
(* Pointers are sequences of length <= 1: <<>> is nil, <<v>> points at v.  *)
(* Errors are strings: "" is the nil error.                                *)
(***************************************************************************)
EXTENDS Integers, Sequences, FiniteSets, TLC

(***************************************************************************)
(* Bounds of the model.                                                    *)
(***************************************************************************)
\* number of repository paths a batch can carry
MaxPaths == 2
\* number of commits of the commit graphs
MaxCommits == 3

\* number of places of the directory structures handed to Scan
MaxNodes == 4

Paths == 1..MaxPaths
Commits == 1..MaxCommits
Nodes == 1..MaxNodes

ErrCanceled == "context canceled"
ErrDeadline == "context deadline exceeded"

(***************************************************************************)
(* models.GitStatus                                                        *)
(***************************************************************************)
GitStatus == [Branch |-> "", IsDetached |-> FALSE, HasRemote |-> FALSE,
              Ahead |-> 0, Behind |-> 0, HasStashes |-> FALSE,
              HasChanges |-> FALSE, Error |-> ""]

\* GitStatus.Validate: TRUE iff Validate returns nil
Validate(g) ==
    /\ g.Branch # ""
    /\ ~(g.IsDetached /\ g.Branch # "DETACHED")
    /\ ~(~g.HasRemote /\ (g.Ahead # 0 \/ g.Behind # 0))
    /\ ~(g.Ahead < 0 \/ g.Behind < 0)

(***************************************************************************)
(* The repository on disk, as the repository access library reports it.    *)
(*   open      "ok" | "err"          git.PlainOpen                          *)
(*   head      "err" | "detached" | a short branch name     repo.Head()    *)
(*   remotes   "err" | "none" | "origin"                    repo.Remotes() *)
(*   tracking  "missing" | "objerr" | "ok"   refs/remotes/origin/<branch>  *)
(*   parents, localHash, remoteHash          the commit graph and the tips *)
(*   stash     BOOLEAN                        refs/stash exists            *)
(*   worktree  "bare" | "err" | "statuserr" | "clean" | "dirty"            *)
(***************************************************************************)

\* repo.Log(From: c): the library's default order is a pre-order walk over the
\* parents that skips every commit already seen.
RECURSIVE LogWalk(_, _, _, _)
LogWalk(parents, stack, seen, out) ==
    IF stack = <<>> THEN out
    ELSE LET c == Head(stack) IN
         IF c \in seen
         THEN LogWalk(parents, Tail(stack), seen, out)
         ELSE LogWalk(parents,
                      [i \in 1..Cardinality(parents[c]) |->
                          CHOOSE x \in parents[c] :
                              Cardinality({y \in parents[c] : y < x}) = i - 1]
                          \o Tail(stack),
                      seen \cup {c}, Append(out, c))

Log(parents, from) == LogWalk(parents, <<from>>, {}, <<>>)

\* iter.ForEach with count++ for every commit not in toCommits
RECURSIVE CountNotIn(_, _)
CountNotIn(log, toCommits) ==
    IF log = <<>> THEN 0
    ELSE (IF Head(log) \in toCommits THEN 0 ELSE 1)
         + CountNotIn(Tail(log), toCommits)

\* a plausible slip: the membership test without its negation
countCommitsBetween_common(parents, from, to) ==
    LET toLog == Log(parents, to)
        toCommits == {toLog[i] : i \in 1..Len(toLog)}
    IN  Len(Log(parents, from)) - CountNotIn(Log(parents, from), toCommits)

countCommitsBetween(parents, from, to) ==
    LET toLog == Log(parents, to)
        toCommits == {toLog[i] : i \in 1..Len(toLog)}
    IN  CountNotIn(Log(parents, from), toCommits)

extractBranch(repo, status) ==
    IF repo.head = "err"
    THEN [status |-> status, err |-> "failed to get HEAD"]
    ELSE IF repo.head = "detached"
    THEN [status |-> [status EXCEPT !.IsDetached = TRUE, !.Branch = "DETACHED"],
          err |-> ""]
    ELSE [status |-> [status EXCEPT !.IsDetached = FALSE, !.Branch = repo.head],
          err |-> ""]

extractRemote(repo, status) ==
    IF repo.remotes = "err"
    THEN [status |-> status, err |-> "remotes error"]
    ELSE IF repo.remotes = "origin"
    THEN [status |-> [status EXCEPT !.HasRemote = TRUE], err |-> ""]
    ELSE [status |-> [status EXCEPT !.HasRemote = FALSE],
          err |-> "no remotes configured"]

extractAheadBehind(repo, status) ==
    IF repo.head = "err"
    THEN [status |-> status, err |-> "reference not found"]
    ELSE IF repo.tracking = "missing"
    THEN [status |-> [status EXCEPT !.Ahead = 0, !.Behind = 0],
          err |-> "reference not found"]
    ELSE IF repo.tracking = "objerr"
    THEN [status |-> status, err |-> "object not found"]
    ELSE [status |-> [status EXCEPT
                 !.Ahead = countCommitsBetween(repo.parents, repo.localHash,
                                               repo.remoteHash),
                 !.Behind = countCommitsBetween(repo.parents, repo.remoteHash,
                                                repo.localHash)],
          err |-> ""]

extractStashes(repo) == repo.stash

extractUncommittedChanges(repo, status) ==
    IF repo.worktree = "bare"
    THEN [status |-> [status EXCEPT !.HasChanges = FALSE],
          err |-> "worktree not available in a bare repository"]
    ELSE IF repo.worktree = "err"
    THEN [status |-> [status EXCEPT !.HasChanges = FALSE],
          err |-> "failed to get worktree"]
    ELSE IF repo.worktree = "statuserr"
    THEN [status |-> status, err |-> "failed to get worktree status"]
    ELSE [status |-> [status EXCEPT !.HasChanges = (repo.worktree = "dirty")],
          err |-> ""]

\* a plausible slip: the divergence step run whether or not a remote exists
extractGitStatus_alwaysDiverge(repo) ==
    IF repo.open = "err"
    THEN [status |-> <<>>, err |-> "failed to open repository"]
    ELSE
    LET b  == extractBranch(repo, GitStatus)
        s1 == IF b.err # ""
              THEN [b.status EXCEPT !.Branch = "N/A", !.Error = b.err]
              ELSE b.status
        r  == extractRemote(repo, s1)
        s2 == IF r.err # "" THEN [r.status EXCEPT !.HasRemote = FALSE]
              ELSE r.status
        a  == extractAheadBehind(repo, s2)
        s3 == IF a.err # "" /\ a.status.Error = ""
              THEN [a.status EXCEPT !.Error = a.err]
              ELSE a.status
        s4 == [s3 EXCEPT !.HasStashes = extractStashes(repo)]
        u  == extractUncommittedChanges(repo, s4)
        s5 == IF u.err # "" /\ repo.worktree # "bare" /\ u.status.Error = ""
              THEN [u.status EXCEPT !.Error = u.err]
              ELSE u.status
    IN  [status |-> <<s5>>, err |-> ""]

extractGitStatus(repo) ==
    IF repo.open = "err"
    THEN [status |-> <<>>, err |-> "failed to open repository"]
    ELSE
    LET b  == extractBranch(repo, GitStatus)
        s1 == IF b.err # ""
              THEN [b.status EXCEPT !.Branch = "N/A", !.Error = b.err]
              ELSE b.status
        r  == extractRemote(repo, s1)
        s2 == IF r.err # "" THEN [r.status EXCEPT !.HasRemote = FALSE]
              ELSE r.status
        a  == IF s2.HasRemote THEN extractAheadBehind(repo, s2)
              ELSE [status |-> s2, err |-> ""]
        s3 == IF a.err # "" /\ a.status.Error = ""
              THEN [a.status EXCEPT !.Error = a.err]
              ELSE a.status
        s4 == [s3 EXCEPT !.HasStashes = extractStashes(repo)]
        u  == extractUncommittedChanges(repo, s4)
        s5 == IF u.err # "" /\ repo.worktree # "bare" /\ u.status.Error = ""
              THEN [u.status EXCEPT !.Error = u.err]
              ELSE u.status
    IN  [status |-> <<s5>>, err |-> ""]

(***************************************************************************)
(* Repositories the specifications draw from.                              *)
(***************************************************************************)
\* one fixed history: every commit merges the two commits before it
MergeParents == [c \in Commits |-> {d \in Commits : d < c /\ d >= c - 2}]

\* all histories over Commits: a commit's parents are older commits
AllParents == {f \in [Commits -> SUBSET Commits] :
                  \A c \in Commits : \A d \in f[c] : d < c}

CleanRepo == [open |-> "ok", head |-> "main", remotes |-> "origin",
              tracking |-> "ok", parents |-> MergeParents,
              localHash |-> MaxCommits, remoteHash |-> 2,
              stash |-> FALSE, worktree |-> "clean"]

CorruptRepo == [CleanRepo EXCEPT !.open = "err"]

\* the repositories of a batch: one that extracts, one that fails to open
BatchRepos == {CleanRepo, CorruptRepo}

\* every outcome of every step of one extraction
StepRepos == {CorruptRepo} \cup
    {[open |-> "ok", head |-> h, remotes |-> r, tracking |-> t,
      parents |-> MergeParents, localHash |-> l, remoteHash |-> 2,
      stash |-> s, worktree |-> w] :
        h \in {"err", "detached", "main", "dev"},
        r \in {"err", "none", "origin"},
        t \in {"missing", "objerr", "ok"},
        l \in {1, MaxCommits},
        s \in BOOLEAN,
        w \in {"bare", "err", "statuserr", "clean", "dirty"}}

\* every history and every pair of tips, the tracking reference resolvable;
\* and the repository that cannot be opened
GraphRepos == {CorruptRepo} \cup
              {[CleanRepo EXCEPT !.parents = f, !.localHash = l,
                                 !.remoteHash = r] :
                  f \in AllParents, l \in Commits, r \in Commits}


(***************************************************************************)
(* The directory structure Scan walks.  Places are numbered like a binary  *)
(* heap: place 1 is the root path, the entries of place n are the places   *)
(* 2n and 2n+1, and entries are read in increasing order, as WalkDir reads *)
(* them in lexical order.  An entry is                                     *)
(*   kind     "absent" | "file" | "symlink" | "dir"                        *)
(*   target   for a symlink: <<place>> it names, <<>> if it names nothing  *)
(*   markers  for a dir: what .git, HEAD, refs and objects are beneath it  *)
(*   perm     for a dir: "ok" | "denied" (neither searchable nor listable) *)
(*            | "ioerr" (listing fails with an error other than permission)*)
(***************************************************************************)
Root == CHOOSE n \in Nodes : \A m \in Nodes : n <= m

Parent(n) == n \div 2

Entries(n) == {c \in Nodes : c # Root /\ Parent(c) = n}

RECURSIVE Path(_)
Path(n) == IF n = Root THEN <<n>> ELSE Append(Path(Parent(n)), n)

\* filepath.Base of the path of place n
Base(n) == n

\* the relative path "."
Dot == <<>>

\* filepath.IsAbs: absolute paths start at the top place
IsAbs(path) == path # <<>> /\ Head(path) = Root

\* filepath.Abs, with the root place as the working directory
Abs(path) == IF IsAbs(path) THEN path ELSE Path(Root) \o path

NoMarkers == [git |-> "absent", HEAD |-> "absent", refs |-> "absent",
              objects |-> "absent"]
GitMarkers == [NoMarkers EXCEPT !.git = "dir"]
BareMarkers == [NoMarkers EXCEPT !.HEAD = "file", !.refs = "dir",
                                 !.objects = "dir"]

Absent == [kind |-> "absent", target |-> <<>>, markers |-> NoMarkers,
           perm |-> "ok"]
File == [Absent EXCEPT !.kind = "file"]
Symlink(t) == [Absent EXCEPT !.kind = "symlink", !.target = t]
Dir(m, p) == [Absent EXCEPT !.kind = "dir", !.markers = m, !.perm = p]

\* a link names nothing, the root (a cycle), or the second entry of the root
LinkTargets == {<<>>, <<Root>>}
               \cup {<<n>> : n \in {m \in Entries(Root) : m - 1 \in Entries(Root)}}

DirEntries == {Dir(m, "ok") : m \in {NoMarkers, GitMarkers, BareMarkers}}
              \cup {Dir(NoMarkers, p) : p \in {"denied", "ioerr"}}

AllEntries == {Absent, File} \cup {Symlink(t) : t \in LinkTargets}
              \cup DirEntries

ErrPermission == "permission denied"
ErrIO == "input/output error"
SkipDir == "skip this directory"

(***************************************************************************)
(* State of one ExtractBatch call and of one Scan call.                    *)
(***************************************************************************)
VARIABLES
    repos,          \* the keys of the repos map handed to ExtractBatch
    disk,           \* path -> the repository found there
    MaxConcurrency, \* opts.MaxConcurrency
    ctxErr,         \* ctx.Err() of the batch context ("" while not done)
    mpc,            \* position of the caller inside ExtractBatch
    wpc,            \* path -> position of its worker goroutine
    ipc,            \* path -> state of the goroutine started inside Extract
    unitErr,        \* path -> Err() of the context derived inside Extract
    resultChan,     \* path -> buffer of Extract's resultChan
    errorChan,      \* path -> buffer of Extract's errorChan
    ret,            \* path -> what Extract returned to the worker
    semaphore,      \* number of tokens held in the semaphore channel
    wg,             \* the WaitGroup counter
    results,        \* buffer of the results channel
    closed,         \* close(results) has happened
    statuses,       \* the map being collected and returned
    early,          \* path -> extractGitStatus sent its Status while the
                    \*         batch context was not done, and the unit's own
                    \*         timeout has not expired since (history)
    opts,           \* the ScanOptions handed to Scan
    fs,             \* place -> the entry found there
    ident,          \* place -> device and inode number of the directory there
    spc,            \* position of the caller inside Scan
    s,              \* the scanner: rootPath, repositories, errors, visited,
                    \*              dirCount
    stack,          \* the calls WalkDir has still to make, next first
    walkErr,        \* the error WalkDir returned ("" for nil)
    scanResult,     \* the *ScanResult Scan returned
    scanErr,        \* the error Scan returned
    examined,       \* the places whose markers were checked, in order
                    \* (history)
    input,          \* the arguments of a call of a function without state
    output          \* what that call returned, <<>> before it has

scanVars == <<opts, fs, ident, spc, s, stack, walkErr, scanResult, scanErr,
              examined>>

callVars == <<input, output>>

batchVars == <<repos, disk, MaxConcurrency, mpc, wpc, ipc, unitErr,
               resultChan, errorChan, ret, semaphore, wg, results, closed,
               statuses, early>>

vars == <<ctxErr, batchVars, scanVars, callVars>>

\* the scanner before Scan has made one
NoScanner == [rootPath |-> <<>>, repositories |-> <<>>, errors |-> <<>>,
              visited |-> {}, dirCount |-> 0]

\* no call of a function without state is in the picture
CallIdle == input = <<>> /\ output = <<>>

\* no Scan call is in the picture
ScanIdle ==
    /\ opts = [RootPath |-> Path(Root)]
    /\ fs = [n \in Nodes |-> Absent]
    /\ ident = [n \in Nodes |-> [dev |-> 1, ino |-> n]]
    /\ spc = "idle"
    /\ s = NoScanner
    /\ stack = <<>>
    /\ walkErr = ""
    /\ scanResult = <<>>
    /\ scanErr = ""
    /\ examined = <<>>

NoReturn == [status |-> <<>>, err |-> ""]

\* the partial Status Extract synthesizes when extractGitStatus fails
ErrorStatus(err) == [GitStatus EXCEPT !.Branch = "N/A", !.Error = err]

\* a plausible slip: the annotation left out of the timeout placeholder
TimeoutStatus_noAnnotation == [GitStatus EXCEPT !.Branch = "N/A"]

\* the partial Status Extract synthesizes when its context is done
TimeoutStatus == [GitStatus EXCEPT !.Branch = "N/A", !.Error = "timeout"]

InitCall(pathSets, repoSet, limits) ==
    /\ repos \in pathSets
    /\ disk \in [repos -> repoSet]
    /\ MaxConcurrency \in limits
    /\ ctxErr = ""
    /\ mpc = "start"
    /\ wpc = [p \in repos |-> "notStarted"]
    /\ ipc = [p \in repos |-> "none"]
    /\ unitErr = [p \in repos |-> ""]
    /\ resultChan = [p \in repos |-> <<>>]
    /\ errorChan = [p \in repos |-> <<>>]
    /\ ret = [p \in repos |-> NoReturn]
    /\ semaphore = 0
    /\ wg = 0
    /\ results = <<>>
    /\ closed = FALSE
    /\ statuses = <<>>
    /\ early = [p \in repos |-> FALSE]

\* ExtractBatch handles its paths alike (the launch loop ranges over a map and
\* every worker runs the same code): batches are taken up to a renaming of the
\* paths, the repositories that open first.  A limit above the number of
\* paths admits every worker, as the limit MaxPaths does.
Init ==
    /\ InitCall({1..n : n \in 0..MaxPaths}, BatchRepos, 0..MaxPaths)
    /\ \A p, q \in repos : (p < q /\ disk[p].open = "err") => disk[q].open = "err"
    /\ ScanIdle
    /\ CallIdle

\* one Extract, through a batch of one path, over every outcome of its steps
InitExtract == InitCall({{1}}, StepRepos, {1}) /\ ScanIdle /\ CallIdle

\* one Extract over every history and pair of tips
InitAheadBehind == InitCall({{1}}, GraphRepos, {1}) /\ ScanIdle /\ CallIdle

\* the caller's context is cancelled or passes its deadline
CtxDone ==
    /\ ctxErr = ""
    /\ mpc # "returned"
    /\ \E e \in {ErrCanceled, ErrDeadline} :
          /\ ctxErr' = e
          /\ unitErr' = [p \in repos |->
                IF wpc[p] = "select" /\ unitErr[p] = "" THEN e
                ELSE unitErr[p]]
    /\ UNCHANGED <<repos, disk, MaxConcurrency, mpc, wpc, ipc, resultChan,
                   errorChan, ret, semaphore, wg, results, closed, statuses,
                   early,
                   scanVars, callVars>>

\* ExtractBatch up to the creation of the channels
ExtractBatchEnter ==
    /\ mpc = "start"
    /\ mpc' = IF repos = {} THEN "returned" ELSE "launch"
    /\ UNCHANGED <<repos, disk, MaxConcurrency, ctxErr, wpc, ipc, unitErr,
                   resultChan, errorChan, ret, semaphore, wg, results, closed,
                   statuses, early,
                   scanVars, callVars>>

\* one iteration of the launch loop: wg.Add(1); go func(path)
Launch(p) ==
    /\ mpc = "launch"
    /\ wpc[p] = "notStarted"
    /\ wg' = wg + 1
    /\ wpc' = [wpc EXCEPT ![p] = "checkCtx"]
    /\ UNCHANGED <<repos, disk, MaxConcurrency, ctxErr, mpc, ipc, unitErr,
                   resultChan, errorChan, ret, semaphore, results, closed,
                   statuses, early,
                   scanVars, callVars>>

\* go func() { wg.Wait(); close(results) }(), then the collecting loop starts
SpawnCloser ==
    /\ mpc = "launch"
    /\ \A p \in repos : wpc[p] # "notStarted"
    /\ mpc' = "collect"
    /\ UNCHANGED <<repos, disk, MaxConcurrency, ctxErr, wpc, ipc, unitErr,
                   resultChan, errorChan, ret, semaphore, wg, results, closed,
                   statuses, early,
                   scanVars, callVars>>

\* the worker's first select: return if the context is done
CheckCtx(p) ==
    /\ wpc[p] = "checkCtx"
    /\ IF ctxErr # ""
       THEN /\ wpc' = [wpc EXCEPT ![p] = "abandoned"]
            /\ wg' = wg - 1
       ELSE /\ wpc' = [wpc EXCEPT ![p] = "acquire"]
            /\ wg' = wg
    /\ UNCHANGED <<repos, disk, MaxConcurrency, ctxErr, mpc, ipc, unitErr,
                   resultChan, errorChan, ret, semaphore, results, closed,
                   statuses, early,
                   scanVars, callVars>>

\* the worker's second select, case semaphore <- struct{}{}.  With capacity 0
\* the send needs a receiver, and the only receives are the deferred ones of
\* workers that acquired before: it is never ready.
\* The worker then calls Extract, which runs up to its select: it derives the
\* timeout context (done at once if the batch context is), makes its two
\* channels and starts the goroutine that runs extractGitStatus.  These steps
\* touch nothing another goroutine can see before the select.
Acquire(p) ==
    /\ wpc[p] = "acquire"
    /\ semaphore < MaxConcurrency
    /\ semaphore' = semaphore + 1
    /\ unitErr' = [unitErr EXCEPT ![p] = ctxErr]
    /\ ipc' = [ipc EXCEPT ![p] = "running"]
    /\ wpc' = [wpc EXCEPT ![p] = "select"]
    /\ UNCHANGED <<repos, disk, MaxConcurrency, ctxErr, mpc, resultChan,
                   errorChan, ret, wg, results, closed, statuses, early,
                   scanVars, callVars>>

\* the worker's second select, case <-ctx.Done()
AcquireAbandon(p) ==
    /\ wpc[p] = "acquire"
    /\ ctxErr # ""
    /\ wpc' = [wpc EXCEPT ![p] = "abandoned"]
    /\ wg' = wg - 1
    /\ UNCHANGED <<repos, disk, MaxConcurrency, ctxErr, mpc, ipc, unitErr,
                   resultChan, errorChan, ret, semaphore, results, closed,
                   statuses, early,
                   scanVars, callVars>>

\* the per-unit timeout of the derived context expires
TimerFire(p) ==
    /\ wpc[p] = "select"
    /\ unitErr[p] = ""
    /\ unitErr' = [unitErr EXCEPT ![p] = ErrDeadline]
    /\ early' = [early EXCEPT ![p] = FALSE]
    /\ UNCHANGED <<repos, disk, MaxConcurrency, ctxErr, mpc, wpc, ipc,
                   resultChan, errorChan, ret, semaphore, wg, results, closed,
                   statuses,
                   scanVars, callVars>>

\* the goroutine inside Extract: extractGitStatus returns and its outcome is
\* sent on the buffered channel
GoExtract(p) ==
    /\ ipc[p] = "running"
    /\ LET out == extractGitStatus(disk[p]) IN
         /\ IF out.err # ""
            THEN /\ errorChan' = [errorChan EXCEPT ![p] = <<out.err>>]
                 /\ resultChan' = resultChan
                 /\ early' = early
            ELSE /\ resultChan' = [resultChan EXCEPT ![p] = out.status]
                 /\ errorChan' = errorChan
                 /\ early' = [early EXCEPT ![p] = (ctxErr = "")]
    /\ ipc' = [ipc EXCEPT ![p] = "finished"]
    /\ UNCHANGED <<repos, disk, MaxConcurrency, ctxErr, mpc, wpc, unitErr,
                   ret, semaphore, wg, results, closed, statuses,
                   scanVars, callVars>>

\* Extract's select, case status := <-resultChan
SelectResult(p) ==
    /\ wpc[p] = "select"
    /\ resultChan[p] # <<>>
    /\ ret' = [ret EXCEPT ![p] = [status |-> resultChan[p], err |-> ""]]
    /\ resultChan' = [resultChan EXCEPT ![p] = <<>>]
    /\ unitErr' = [unitErr EXCEPT ![p] = ""]
    /\ wpc' = [wpc EXCEPT ![p] = "send"]
    /\ UNCHANGED <<repos, disk, MaxConcurrency, ctxErr, mpc, ipc, errorChan,
                   semaphore, wg, results, closed, statuses, early,
                   scanVars, callVars>>

\* Extract's select, case err := <-errorChan
SelectError(p) ==
    /\ wpc[p] = "select"
    /\ errorChan[p] # <<>>
    /\ ret' = [ret EXCEPT ![p] = [status |-> <<ErrorStatus(errorChan[p][1])>>,
                                  err |-> errorChan[p][1]]]
    /\ errorChan' = [errorChan EXCEPT ![p] = <<>>]
    /\ unitErr' = [unitErr EXCEPT ![p] = ""]
    /\ wpc' = [wpc EXCEPT ![p] = "send"]
    /\ UNCHANGED <<repos, disk, MaxConcurrency, ctxErr, mpc, ipc, resultChan,
                   semaphore, wg, results, closed, statuses, early,
                   scanVars, callVars>>

\* Extract's select, case <-ctx.Done(): whatever the goroutine has sent or
\* will send stays in its channel
SelectDone(p) ==
    /\ wpc[p] = "select"
    /\ unitErr[p] # ""
    /\ ret' = [ret EXCEPT ![p] = [status |-> <<TimeoutStatus>>,
                                  err |-> unitErr[p]]]
    /\ unitErr' = [unitErr EXCEPT ![p] = ""]
    /\ wpc' = [wpc EXCEPT ![p] = "send"]
    /\ UNCHANGED <<repos, disk, MaxConcurrency, ctxErr, mpc, ipc, resultChan,
                   errorChan, semaphore, wg, results, closed, statuses, early,
                   scanVars, callVars>>

\* results <- result{path, status, err}; the buffer holds len(repos) values
Send(p) ==
    /\ wpc[p] = "send"
    /\ ~closed
    /\ Len(results) < Cardinality(repos)
    /\ results' = Append(results, [path |-> p, status |-> ret[p].status,
                                   err |-> ret[p].err])
    /\ ret' = [ret EXCEPT ![p] = NoReturn]
    /\ wpc' = [wpc EXCEPT ![p] = "release"]
    /\ UNCHANGED <<repos, disk, MaxConcurrency, ctxErr, mpc, ipc, unitErr,
                   resultChan, errorChan, semaphore, wg, closed, statuses,
                   early,
                   scanVars, callVars>>

\* the worker returns and its deferred calls run: <-semaphore, then wg.Done()
Release(p) ==
    /\ wpc[p] = "release"
    /\ semaphore > 0
    /\ semaphore' = semaphore - 1
    /\ wg' = wg - 1
    /\ wpc' = [wpc EXCEPT ![p] = "done"]
    /\ UNCHANGED <<repos, disk, MaxConcurrency, ctxErr, mpc, ipc, unitErr,
                   resultChan, errorChan, ret, results, closed, statuses,
                   early,
                   scanVars, callVars>>

\* the closing goroutine, were it to close the channel without wg.Wait()
CloseResults_noWait ==
    /\ mpc = "collect"
    /\ ~closed
    /\ closed' = TRUE
    /\ UNCHANGED <<repos, disk, MaxConcurrency, ctxErr, mpc, wpc, ipc, unitErr,
                   resultChan, errorChan, ret, semaphore, wg, results,
                   statuses, early,
                   scanVars, callVars>>

\* the closing goroutine: wg.Wait() returns, close(results)
CloseResults ==
    /\ mpc = "collect"
    /\ ~closed
    /\ wg = 0
    /\ closed' = TRUE
    /\ UNCHANGED <<repos, disk, MaxConcurrency, ctxErr, mpc, wpc, ipc, unitErr,
                   resultChan, errorChan, ret, semaphore, wg, results,
                   statuses, early,
                   scanVars, callVars>>

\* a plausible slip: only results without an error are kept
Collected_okOnly(r) == r.status # <<>> /\ r.err = ""

\* the test of the collecting loop
Collected(r) == r.status # <<>>

\* one iteration of for r := range results
Collect ==
    /\ mpc = "collect"
    /\ results # <<>>
    /\ LET r == Head(results) IN
         statuses' = IF Collected(r)
                     THEN [q \in DOMAIN statuses \cup {r.path} |->
                             IF q = r.path THEN r.status[1] ELSE statuses[q]]
                     ELSE statuses
    /\ results' = Tail(results)
    /\ UNCHANGED <<repos, disk, MaxConcurrency, ctxErr, mpc, wpc, ipc, unitErr,
                   resultChan, errorChan, ret, semaphore, wg, closed, early,
                   scanVars, callVars>>

\* the range loop ends on the closed, drained channel: return statuses, nil
Return ==
    /\ mpc = "collect"
    /\ results = <<>>
    /\ closed
    /\ mpc' = "returned"
    /\ UNCHANGED <<repos, disk, MaxConcurrency, ctxErr, wpc, ipc, unitErr,
                   resultChan, errorChan, ret, semaphore, wg, results, closed,
                   statuses, early,
                   scanVars, callVars>>

Next ==
    \/ CtxDone
    \/ ExtractBatchEnter
    \/ SpawnCloser
    \/ CloseResults
    \/ Collect
    \/ Return
    \/ \E p \in repos : Launch(p)
    \/ \E p \in repos : CheckCtx(p)
    \/ \E p \in repos : Acquire(p)
    \/ \E p \in repos : AcquireAbandon(p)
    \/ \E p \in repos : TimerFire(p)
    \/ \E p \in repos : GoExtract(p)
    \/ \E p \in repos : SelectResult(p)
    \/ \E p \in repos : SelectError(p)
    \/ \E p \in repos : SelectDone(p)
    \/ \E p \in repos : Send(p)
    \/ \E p \in repos : Release(p)

\* ExtractBatch over a small set of repositories
Spec == Init /\ [][Next]_vars

SpecExtract == InitExtract /\ [][Next]_vars

SpecAheadBehind == InitAheadBehind /\ [][Next]_vars

\* the steps of the goroutines of the program; the scheduler runs a runnable
\* goroutine, and a timer that is armed fires
Step ==
    \/ ExtractBatchEnter
    \/ SpawnCloser
    \/ CloseResults
    \/ Collect
    \/ Return
    \/ \E p \in repos : Launch(p)
    \/ \E p \in repos : CheckCtx(p)
    \/ \E p \in repos : Acquire(p)
    \/ \E p \in repos : AcquireAbandon(p)
    \/ \E p \in repos : TimerFire(p)
    \/ \E p \in repos : GoExtract(p)
    \/ \E p \in repos : SelectResult(p)
    \/ \E p \in repos : SelectError(p)
    \/ \E p \in repos : SelectDone(p)
    \/ \E p \in repos : Send(p)
    \/ \E p \in repos : Release(p)

FairSpec == Init /\ [][Next]_vars /\ WF_vars(Step)

(***************************************************************************)
(* Properties of ExtractBatch and Extract.                                 *)
(***************************************************************************)
InProgress == {p \in repos : ipc[p] = "running"}

\* C1: with MaxConcurrency >= 1, at most MaxConcurrency executions of
\* extractGitStatus are in progress at any moment, an execution being in
\* progress until it has returned.
C1_AtMostLimitInProgress ==
    MaxConcurrency >= 1 => Cardinality(InProgress) <= MaxConcurrency

\* C2: every ExtractBatch call on a non-empty batch, with any
\* MaxConcurrency >= 0, eventually returns.
C2_EventuallyReturns == (repos # {}) => <>(mpc = "returned")

Computed(p) == extractGitStatus(disk[p]).status

C4_NoTaskLeftAtReturn ==
    mpc = "returned" =>
        \A p \in repos : /\ wpc[p] \in {"done", "abandoned"}
                          /\ ipc[p] # "running"

\* C5: a Status that a unit produced before the cancellation signal fired is
\* in the returned map with the values the unit computed.
C5_ProducedStatusPreserved ==
    (mpc = "returned" /\ ctxErr # "") =>
        \A p \in repos :
            early[p] => (p \in DOMAIN statuses /\ <<statuses[p]>> = Computed(p))

ContextErrors == {ErrCanceled, ErrDeadline}

\* what Extract guarantees of its return value, for a given sentinel branch
ExtractContract(sentinel) ==
    \A p \in repos :
        wpc[p] = "send" =>
            /\ ret[p].status # <<>>
            /\ ret[p].err \in ContextErrors =>
                   /\ ret[p].status[1].Branch = sentinel
                   /\ ret[p].status[1].Error = "timeout"
            /\ (ret[p].err # "" /\ ret[p].err \notin ContextErrors) =>
                   /\ disk[p].open = "err"
                   /\ ret[p].status[1].Branch = sentinel
                   /\ ret[p].status[1].Error # ""
            /\ (disk[p].open = "err" /\ ret[p].err \notin ContextErrors) =>
                   ret[p].err # ""

C7_ReturnedStatusValid ==
    \A p \in repos :
        wpc[p] = "send" => (ret[p].status # <<>> /\ Validate(ret[p].status[1]))

\* C7 witness: a Status with a failed branch step, no remote, and an error
C7_Witness ==
    \E p \in repos : /\ wpc[p] = "send"
                      /\ ret[p].err = ""
                      /\ disk[p].head = "err"
                      /\ disk[p].remotes = "none"
                      /\ disk[p].tracking = "ok"
                      /\ ret[p].status[1].Branch = "N/A"

\* the commits reachable from c, as a set
RECURSIVE ReachFrom(_, _)
ReachFrom(parents, S) ==
    LET T == S \cup UNION {parents[c] : c \in S}
    IN  IF T = S THEN S ELSE ReachFrom(parents, T)

Reachable(parents, c) == ReachFrom(parents, {c})

\* C8: for every history, local head L and resolvable tracking reference R,
\* Ahead = |reachable(L) \ reachable(R)| and
\* Behind = |reachable(R) \ reachable(L)|; L = R gives 0 and 0.
C8_AheadBehindExact ==
    \A p \in repos :
        (wpc[p] = "send" /\ ret[p].err = "") =>
            LET d == disk[p]
                L == Reachable(d.parents, d.localHash)
                R == Reachable(d.parents, d.remoteHash)
                st == ret[p].status[1]
            IN  /\ st.Ahead = Cardinality(L \ R)
                /\ st.Behind = Cardinality(R \ L)
                /\ d.localHash = d.remoteHash => (st.Ahead = 0 /\ st.Behind = 0)

\* C8 witness: a local head exactly two commits beyond the tracking reference
C8_Witness ==
    \E p \in repos : /\ wpc[p] = "send"
                      /\ ret[p].err = ""
                      /\ disk[p].parents[disk[p].localHash] # {}
                      /\ disk[p].remoteHash \in disk[p].parents[disk[p].localHash]
                      /\ ret[p].status[1].Ahead = 2
                      /\ ret[p].status[1].Behind = 0

(***************************************************************************)
(* Scan: the operators of the scanner.                                     *)
(***************************************************************************)

\* os.Stat of the marker `name` beneath a directory with entry e succeeds
StatOK(e, name) == e.perm # "denied" /\ e.markers[name] # "absent"

\* IsGitRepository that takes refs and objects for the whole bare signature
IsGitRepository_noHead(e) ==
    IF StatOK(e, "git") /\ e.markers.git = "dir"
    THEN [isRepo |-> TRUE, isBare |-> FALSE]
    ELSE LET refsExists == StatOK(e, "refs") /\ e.markers.refs = "dir"
             objsExists == StatOK(e, "objects") /\ e.markers.objects = "dir"
         IN  IF refsExists /\ objsExists
             THEN [isRepo |-> TRUE, isBare |-> TRUE]
             ELSE [isRepo |-> FALSE, isBare |-> FALSE]

\* IsGitRepository of a directory with entry e
IsGitRepository(e) ==
    IF StatOK(e, "git") /\ e.markers.git = "dir"
    THEN [isRepo |-> TRUE, isBare |-> FALSE]
    ELSE LET headExists == StatOK(e, "HEAD")
             refsExists == StatOK(e, "refs") /\ e.markers.refs = "dir"
             objsExists == StatOK(e, "objects") /\ e.markers.objects = "dir"
         IN  IF headExists /\ refsExists /\ objsExists
             THEN [isRepo |-> TRUE, isBare |-> TRUE]
             ELSE [isRepo |-> FALSE, isBare |-> FALSE]

\* filepath.EvalSymlinks: <<place>> the path resolves to, <<>> when it fails
RECURSIVE EvalSymlinks(_, _)
EvalSymlinks(n, hops) ==
    IF fs[n].kind = "absent" THEN <<>>
    ELSE IF fs[n].kind # "symlink" THEN <<n>>
    ELSE IF hops = 0 \/ fs[n].target = <<>> THEN <<>>
    ELSE EvalSymlinks(fs[n].target[1], hops - 1)

\* shouldVisit without the step that marks the inode as visited
shouldVisit_noMark(sc, n) ==
    LET isSymlink == fs[n].kind = "symlink"
        actualPath == IF isSymlink THEN EvalSymlinks(n, MaxNodes) ELSE <<n>>
    IN  IF actualPath = <<>>
        THEN [shouldVisit |-> FALSE, isSymlink |-> FALSE,
              err |-> "no such file or directory", s |-> sc]
        ELSE IF isSymlink /\ fs[actualPath[1]].kind # "dir"
        THEN [shouldVisit |-> FALSE, isSymlink |-> FALSE, err |-> "", s |-> sc]
        ELSE LET inode == ident[actualPath[1]].ino
             IN  IF inode \in sc.visited
                 THEN [shouldVisit |-> FALSE, isSymlink |-> isSymlink,
                       err |-> "", s |-> sc]
                 ELSE [shouldVisit |-> TRUE, isSymlink |-> isSymlink,
                       err |-> "", s |-> sc]

\* shouldVisit: the path is a place not seen before, by inode number
shouldVisit(sc, n) ==
    LET isSymlink == fs[n].kind = "symlink"
        actualPath == IF isSymlink THEN EvalSymlinks(n, MaxNodes) ELSE <<n>>
    IN  IF actualPath = <<>>
        THEN [shouldVisit |-> FALSE, isSymlink |-> FALSE,
              err |-> "no such file or directory", s |-> sc]
        ELSE IF isSymlink /\ fs[actualPath[1]].kind # "dir"
        THEN [shouldVisit |-> FALSE, isSymlink |-> FALSE, err |-> "", s |-> sc]
        ELSE LET inode == ident[actualPath[1]].ino
             IN  IF inode \in sc.visited
                 THEN [shouldVisit |-> FALSE, isSymlink |-> isSymlink,
                       err |-> "", s |-> sc]
                 ELSE [shouldVisit |-> TRUE, isSymlink |-> isSymlink,
                       err |-> "",
                       s |-> [sc EXCEPT !.visited = @ \cup {inode}]]

\* the Repository walkFunc records for place n
NewRepository(n, isBare, isSymlink) ==
    [Path |-> Path(n), Name |-> Base(n), IsBare |-> isBare,
     IsSymlink |-> isSymlink]

\* walkFunc that goes on into a directory it has recorded as a repository
walkFunc_descend(sc, n, err) ==
    IF ctxErr # "" THEN [ret |-> ctxErr, s |-> sc, examined |-> FALSE]
    ELSE IF err # "" THEN
        IF err = ErrPermission
        THEN [ret |-> SkipDir, examined |-> FALSE,
              s |-> [sc EXCEPT !.errors = Append(@, <<ErrPermission, Path(n)>>)]]
        ELSE [ret |-> err, s |-> sc, examined |-> FALSE]
    ELSE IF fs[n].kind # "dir" THEN [ret |-> "", s |-> sc, examined |-> FALSE]
    ELSE LET v == shouldVisit([sc EXCEPT !.dirCount = @ + 1], n)
             g == IsGitRepository(fs[n])
         IN  IF v.err # ""
             THEN [ret |-> SkipDir, examined |-> FALSE,
                   s |-> [v.s EXCEPT !.errors = Append(@, <<v.err, Path(n)>>)]]
             ELSE IF ~v.shouldVisit
             THEN [ret |-> SkipDir, s |-> v.s, examined |-> FALSE]
             ELSE IF g.isRepo
             THEN [ret |-> "", examined |-> TRUE,
                   s |-> [v.s EXCEPT !.repositories =
                            Append(@, NewRepository(n, g.isBare, v.isSymlink))]]
             ELSE [ret |-> "", s |-> v.s, examined |-> TRUE]

\* walkFunc, called by WalkDir for place n with the error err ("" for nil):
\* what it returns, the scanner afterwards, and whether it checked the
\* markers of n
walkFunc(sc, n, err) ==
    IF ctxErr # "" THEN [ret |-> ctxErr, s |-> sc, examined |-> FALSE]
    ELSE IF err # "" THEN
        IF err = ErrPermission
        THEN [ret |-> SkipDir, examined |-> FALSE,
              s |-> [sc EXCEPT !.errors = Append(@, <<ErrPermission, Path(n)>>)]]
        ELSE [ret |-> err, s |-> sc, examined |-> FALSE]
    ELSE IF fs[n].kind # "dir" THEN [ret |-> "", s |-> sc, examined |-> FALSE]
    ELSE LET v == shouldVisit([sc EXCEPT !.dirCount = @ + 1], n)
             g == IsGitRepository(fs[n])
         IN  IF v.err # ""
             THEN [ret |-> SkipDir, examined |-> FALSE,
                   s |-> [v.s EXCEPT !.errors = Append(@, <<v.err, Path(n)>>)]]
             ELSE IF ~v.shouldVisit
             THEN [ret |-> SkipDir, s |-> v.s, examined |-> FALSE]
             ELSE IF g.isRepo
             THEN [ret |-> SkipDir, examined |-> TRUE,
                   s |-> [v.s EXCEPT !.repositories =
                            Append(@, NewRepository(n, g.isBare, v.isSymlink))]]
             ELSE [ret |-> "", s |-> v.s, examined |-> TRUE]

\* filepath.Rel(root, path) for a path at or beneath root (<<>> is ".")
Rel(root, path) == SubSeq(path, Len(root) + 1, Len(path))

\* the nodes in increasing order of Repository.Name, nodes of one name in
\* the order they had: sort.Slice sorts the short slices of the model by
\* insertion, which keeps that order
RECURSIVE SortByName(_)
SortByName(nodes) ==
    IF nodes = <<>> THEN <<>>
    ELSE LET i == CHOOSE k \in 1..Len(nodes) :
                      \A j \in 1..Len(nodes) :
                          \/ nodes[k].Repository.Name < nodes[j].Repository.Name
                          \/ /\ nodes[k].Repository.Name = nodes[j].Repository.Name
                             /\ k <= j
             rest == [k \in 1..(Len(nodes) - 1) |->
                          IF k < i THEN nodes[k] ELSE nodes[k + 1]]
         IN  <<nodes[i]>> \o SortByName(rest)

\* SortChildren that marks the last child and leaves the order as it is
SortChildren_unsorted(children) ==
    [i \in 1..Len(children) |->
        [children[i] EXCEPT !.IsLast = (i = Len(children))]]

\* TreeNode.SortChildren applied to the children of a node
SortChildren(children) ==
    LET sorted == SortByName(children)
    IN  [i \in 1..Len(sorted) |->
            [sorted[i] EXCEPT !.IsLast = (i = Len(sorted))]]

\* buildTree: the flat tree of the repositories found
buildTree(sc) ==
    LET rootRepo == [Path |-> sc.rootPath, Name |-> sc.rootPath[Len(sc.rootPath)],
                     IsBare |-> FALSE, IsSymlink |-> FALSE]
    IN  IF Len(sc.repositories) = 0
        THEN [Repository |-> rootRepo, Depth |-> 0, IsLast |-> TRUE,
              Children |-> <<>>, RelativePath |-> <<>>]
        ELSE [Repository |-> rootRepo, Depth |-> 0, IsLast |-> FALSE,
              RelativePath |-> <<>>,
              Children |-> SortChildren(
                  [i \in 1..Len(sc.repositories) |->
                      [Repository |-> sc.repositories[i], Depth |-> 1,
                       IsLast |-> FALSE, Children |-> <<>>,
                       RelativePath |-> Rel(sc.rootPath, sc.repositories[i].Path)]])]

(***************************************************************************)
(* Scan: the directory structures it is given.                             *)
(***************************************************************************)

\* the root is a directory, a file or missing; an entry exists only in a
\* directory that can be listed (what lies beneath one that cannot is never
\* seen by the walk)
WellFormed(f) ==
    /\ f[Root].kind \in {"dir", "file", "absent"}
    /\ \A n \in Nodes \ {Root} :
           f[n] # Absent => (f[Parent(n)].kind = "dir" /\ f[Parent(n)].perm = "ok")

RECURSIVE Beneath(_, _)
\* place n is place b or lies beneath it
Beneath(n, b) == n = b \/ (n # Root /\ Beneath(Parent(n), b))

\* every directory has an inode number of its own, on one device
OwnInodes == [n \in Nodes |-> [dev |-> 1, ino |-> n]]

\* directory b has the inode number of directory a: on the same device (b is
\* a second mount of a), or as the root of another device
SharedInode(a, b, same) ==
    [n \in Nodes |-> [dev |-> IF ~same /\ Beneath(n, b) THEN 2 ELSE 1,
                      ino |-> IF n = b THEN a ELSE n]]

\* a second mount of a directory has the content of the directory; in the
\* structures considered nothing lies beneath either
Identities(f) ==
    {OwnInodes} \cup
    {SharedInode(t[1], t[2], t[3]) :
        t \in {u \in Nodes \X Nodes \X BOOLEAN :
                  /\ u[1] < u[2]
                  /\ f[u[1]].kind = "dir" /\ f[u[2]].kind = "dir"
                  /\ u[3] => /\ u[1] # Root
                             /\ f[u[1]] = f[u[2]]
                             /\ \A c \in Entries(u[1]) \cup Entries(u[2]) :
                                    f[c] = Absent}}

\* the root paths Scan is called with: the absolute path of the root place,
\* or "." with the root place as the working directory
RootPaths == {Path(Root), Dot}

InitScanWith(rootPaths) ==
    /\ InitCall({{}}, {CleanRepo}, {0})
    /\ CallIdle
    /\ opts \in [RootPath : rootPaths]
    /\ fs \in {f \in [Nodes -> AllEntries] : WellFormed(f)}
    /\ ident \in Identities(fs)
    /\ spc = "start"
    /\ s = NoScanner
    /\ stack = <<>>
    /\ walkErr = ""
    /\ scanResult = <<>>
    /\ scanErr = ""
    /\ examined = <<>>

\* Scan called with an absolute root path, as cmd/gitree calls it
InitScan == InitScanWith({Path(Root)})

\* Scan called with an absolute or a relative root path
InitScanRoot == InitScanWith(RootPaths)

(***************************************************************************)
(* Scan: its steps.                                                        *)
(***************************************************************************)

\* the context handed to Scan is cancelled or its deadline passes
ScanCtxDone ==
    /\ spc \in {"start", "walk"}
    /\ ctxErr = ""
    /\ \E e \in {ErrCanceled, ErrDeadline} : ctxErr' = e
    /\ UNCHANGED <<batchVars, scanVars, callVars>>

\* Scan up to the call of WalkDir: the root path is checked and the scanner
\* is made
ScanStart ==
    /\ spc = "start"
    /\ IF fs[Root].kind = "absent"
       THEN /\ spc' = "done"
            /\ scanErr' = "cannot access root path"
            /\ UNCHANGED <<s, stack>>
       ELSE IF fs[Root].kind # "dir"
       THEN /\ spc' = "done"
            /\ scanErr' = "root path is not a directory"
            /\ UNCHANGED <<s, stack>>
       ELSE /\ spc' = "walk"
            /\ s' = [NoScanner EXCEPT !.rootPath = Abs(opts.RootPath)]
            /\ stack' = <<[node |-> Root, call |-> "enter"]>>
            /\ UNCHANGED scanErr
    /\ UNCHANGED <<ctxErr, batchVars, callVars, opts, fs, ident, walkErr, scanResult, examined>>

\* the entries of directory n that WalkDir goes on to, in order
EntryCalls(n) ==
    LET RECURSIVE From(_)
        From(c) == IF c \notin Nodes THEN <<>>
                   ELSE (IF c \in Entries(n) /\ fs[c].kind # "absent"
                         THEN <<[node |-> c, call |-> "enter"]>> ELSE <<>>)
                        \o From(c + 1)
    IN  From(n + 1)

\* WalkDir comes to place n and calls walkFunc with a nil error; when that
\* returns nil for a directory, WalkDir reads the directory
WalkEnter ==
    /\ spc = "walk"
    /\ stack # <<>>
    /\ Head(stack).call = "enter"
    /\ LET n == Head(stack).node
           r == walkFunc(s, n, "")
       IN  /\ s' = r.s
           /\ examined' = IF r.examined THEN Append(examined, n) ELSE examined
           /\ IF r.ret = SkipDir
              THEN stack' = Tail(stack) /\ UNCHANGED walkErr
              ELSE IF r.ret # ""
              THEN stack' = <<>> /\ walkErr' = r.ret
              ELSE /\ UNCHANGED walkErr
                   /\ stack' = IF fs[n].kind # "dir" THEN Tail(stack)
                               ELSE IF fs[n].perm = "ok"
                               THEN EntryCalls(n) \o Tail(stack)
                               ELSE <<[node |-> n, call |-> "readErr"]>>
                                    \o Tail(stack)
    /\ UNCHANGED <<ctxErr, batchVars, callVars, opts, fs, ident, spc, scanResult, scanErr>>

\* reading directory n failed: WalkDir calls walkFunc a second time, with
\* the error
WalkReadError ==
    /\ spc = "walk"
    /\ stack # <<>>
    /\ Head(stack).call = "readErr"
    /\ LET n == Head(stack).node
           r == walkFunc(s, n, IF fs[n].perm = "denied" THEN ErrPermission
                               ELSE ErrIO)
       IN  /\ s' = r.s
           /\ IF r.ret = SkipDir \/ r.ret = ""
              THEN stack' = Tail(stack) /\ UNCHANGED walkErr
              ELSE stack' = <<>> /\ walkErr' = r.ret
    /\ UNCHANGED <<ctxErr, batchVars, callVars, opts, fs, ident, spc, scanResult, scanErr,
                   examined>>

\* ScanFinish with the two totals of the result taken from each other's source
ScanFinish_totalsSwapped ==
    /\ spc = "walk"
    /\ stack = <<>>
    /\ spc' = "done"
    /\ IF walkErr # "" /\ walkErr # ErrCanceled
       THEN /\ scanErr' = "error walking directory tree"
            /\ UNCHANGED scanResult
       ELSE /\ scanResult' = <<[RootPath |-> s.rootPath,
                                Repositories |-> s.repositories,
                                Tree |-> buildTree(s),
                                TotalScanned |-> Len(s.repositories),
                                TotalRepos |-> s.dirCount,
                                Errors |-> s.errors]>>
            /\ UNCHANGED scanErr
    /\ UNCHANGED <<ctxErr, batchVars, callVars, opts, fs, ident, s, stack, walkErr, examined>>

\* WalkDir has returned: Scan fails, or builds the tree and the result
ScanFinish ==
    /\ spc = "walk"
    /\ stack = <<>>
    /\ spc' = "done"
    /\ IF walkErr # "" /\ walkErr # ErrCanceled
       THEN /\ scanErr' = "error walking directory tree"
            /\ UNCHANGED scanResult
       ELSE /\ scanResult' = <<[RootPath |-> s.rootPath,
                                Repositories |-> s.repositories,
                                Tree |-> buildTree(s),
                                TotalScanned |-> s.dirCount,
                                TotalRepos |-> Len(s.repositories),
                                Errors |-> s.errors]>>
            /\ UNCHANGED scanErr
    /\ UNCHANGED <<ctxErr, batchVars, callVars, opts, fs, ident, s, stack, walkErr, examined>>

NextScan ==
    \/ ScanCtxDone
    \/ ScanStart
    \/ WalkEnter
    \/ WalkReadError
    \/ ScanFinish

ScanStep ==
    \/ ScanStart
    \/ WalkEnter
    \/ WalkReadError
    \/ ScanFinish

SpecScan == InitScan /\ [][NextScan]_vars

SpecScanRoot == InitScanRoot /\ [][NextScan]_vars

\* Scan is one sequential call: it goes on as long as it can
FairSpecScan == InitScan /\ [][NextScan]_vars /\ WF_vars(ScanStep)

(***************************************************************************)
(* Properties of Scan.                                                     *)
(***************************************************************************)

\* path p lies strictly beneath path q
StrictlyBeneath(p, q) == Len(p) > Len(q) /\ SubSeq(p, 1, Len(q)) = q

AcceptedOnce ==
    \A i, j \in DOMAIN examined :
        i # j => ident[examined[i]] # ident[examined[j]]

\* C10: for every directory structure, those with a cycle of symbolic links
\* among them, Scan terminates, and during the traversal each directory
\* identity is accepted for the marker check and the descent at most once.
C10_TerminatesAcceptingOnce == []AcceptedOnce /\ <>(spc = "done")

\* C10 witness: Scan has walked to its end through a directory holding a
\* symbolic link that names the root, which closes a cycle, and has
\* returned a result.
C10_Witness ==
    /\ spc = "done"
    /\ ctxErr = ""
    /\ scanResult # <<>>
    /\ \E n \in Nodes \ {Root} :
           /\ fs[n].kind = "symlink"
           /\ fs[n].target = <<Root>>
           /\ \E j \in DOMAIN examined : examined[j] = Parent(n)
           /\ ~IsGitRepository(fs[Parent(n)]).isRepo

\* the walk came to place n: the directory holding it was accepted, is not
\* itself a repository, and was read
Encountered(n) ==
    /\ n # Root
    /\ fs[n].kind # "absent"
    /\ \E j \in DOMAIN examined : examined[j] = Parent(n)
    /\ ~IsGitRepository(fs[Parent(n)]).isRepo

\* place n is a symbolic link that does not lead to a directory
BrokenLink(n) ==
    /\ fs[n].kind = "symlink"
    /\ \/ EvalSymlinks(n, MaxNodes) = <<>>
       \/ fs[EvalSymlinks(n, MaxNodes)[1]].kind # "dir"

\* the diagnostics of a result that name path p
DiagnosticsFor(result, p) ==
    {i \in DOMAIN result.Errors : result.Errors[i][2] = p}

\* C11: when Scan comes to a symbolic link whose target does not exist,
\* cannot be resolved or is not a directory, nothing is listed through the
\* link, exactly one diagnostic for the link is in ScanResult.Errors, and
\* Scan returns a result with a nil error.
C11_BrokenLinkDiagnosedOnce ==
    \A n \in Nodes :
        (spc = "done" /\ ctxErr = "" /\ walkErr = ""
             /\ BrokenLink(n) /\ Encountered(n)) =>
            /\ scanResult # <<>>
            /\ scanErr = ""
            /\ \A i \in DOMAIN scanResult[1].Repositories :
                   scanResult[1].Repositories[i].Path # Path(n)
            /\ Cardinality(DiagnosticsFor(scanResult[1], Path(n))) = 1

\* place n is a symbolic link to a repository directory that can be read
\* and that the walk has not come to before it comes to the link: the link
\* and the directory are entries of one directory, the link first
LinkToFreshRepository(n) ==
    /\ fs[n].kind = "symlink"
    /\ EvalSymlinks(n, MaxNodes) # <<>>
    /\ LET t == EvalSymlinks(n, MaxNodes)[1]
       IN  /\ fs[t].kind = "dir"
           /\ fs[t].perm = "ok"
           /\ IsGitRepository(fs[t]).isRepo
           /\ t # Root /\ Parent(t) = Parent(n) /\ n < t
           /\ \A m \in Nodes \ {t} : fs[m].kind = "dir" => ident[m].ino # ident[t].ino

\* C12: when an entry beneath the scan root is a symbolic link to an
\* accessible repository directory not yet visited, Scan follows the link
\* and records that repository with IsSymlink = true.
C12_LinkedRepositoryRecorded ==
    \A n \in Nodes :
        (spc = "done" /\ ctxErr = "" /\ walkErr = ""
             /\ LinkToFreshRepository(n) /\ Encountered(n)) =>
            /\ scanResult # <<>>
            /\ \E i \in DOMAIN scanResult[1].Repositories :
                   scanResult[1].Repositories[i].IsSymlink

\* a directory below the root that the walk came to and could not read
FailedBelowRoot(n) ==
    /\ Encountered(n)
    /\ fs[n].kind = "dir"
    /\ fs[n].perm # "ok"
    /\ \E j \in DOMAIN examined : examined[j] = n

\* a repository directory that lies beneath readable directories that are
\* not repositories, all with inode numbers of their own
FoundElsewhere(n) ==
    /\ fs[n].kind = "dir"
    /\ IsGitRepository(fs[n]).isRepo
    /\ ident = OwnInodes
    /\ \A a \in Nodes \ {n} :
           Beneath(n, a) => (fs[a].perm = "ok" /\ ~IsGitRepository(fs[a]).isRepo)

\* C13: a read or permission failure on a directory below the root is not
\* fatal: Scan returns a result and a nil error, the result holds a
\* diagnostic for the directory and every repository found elsewhere.
C13_ReadFailureNotFatal ==
    \A n \in Nodes :
        (spc = "done" /\ ctxErr = "" /\ FailedBelowRoot(n)) =>
            /\ scanErr = ""
            /\ scanResult # <<>>
            /\ DiagnosticsFor(scanResult[1], Path(n)) # {}
            /\ \A m \in Nodes :
                   FoundElsewhere(m) =>
                       \E i \in DOMAIN scanResult[1].Repositories :
                           scanResult[1].Repositories[i].Path = Path(m)

\* C14: Scan called with a root path that is not an existing absolute
\* directory (missing, not a directory, or not absolute) returns an error
\* and no result; and Scan never returns both a result and an error, nor
\* neither.
C14_BadRootFatal ==
    spc = "done" =>
        /\ (scanResult # <<>>) <=> (scanErr = "")
        /\ (fs[Root].kind # "dir" \/ ~IsAbs(opts.RootPath)) =>
               (scanResult = <<>> /\ scanErr # "")

\* ScanResult.Validate: the error it returns ("" for nil).  A slice and a
\* pointer of the model are never nil, as Scan makes both before it returns
\* (scanner.go:92, 109); Duration is not modelled.
ScanResult_Validate(r) ==
    IF r.RootPath = <<>> THEN "root path cannot be empty"
    ELSE IF ~IsAbs(r.RootPath) THEN "root path must be absolute"
    ELSE IF r.TotalRepos # Len(r.Repositories) THEN "total repos mismatch"
    ELSE IF r.TotalScanned < r.TotalRepos THEN "total scanned < total repos"
    ELSE ""

MarkerKinds == {"absent", "file", "dir"}

\* the directories IsGitRepository is called on: every combination of the
\* four markers, beneath a directory whose entries can be looked up
MarkedDirs ==
    {Dir(m, p) : m \in [{"git", "HEAD", "refs", "objects"} -> MarkerKinds],
                 p \in {"ok", "ioerr"}}

InitIsGitRepository ==
    /\ InitCall({{}}, {CleanRepo}, {0})
    /\ ScanIdle
    /\ input \in {<<e>> : e \in MarkedDirs}
    /\ output = <<>>

\* the call IsGitRepository(path) and its return
CallIsGitRepository ==
    /\ input # <<>>
    /\ output = <<>>
    /\ output' = <<IsGitRepository(input[1])>>
    /\ UNCHANGED <<ctxErr, batchVars, scanVars, input>>

SpecIsGitRepository == InitIsGitRepository /\ [][CallIsGitRepository]_vars

\* C16: IsGitRepository returns (true, false) exactly when .git exists and
\* is a directory; otherwise (true, true) exactly when HEAD exists and refs
\* and objects are directories; otherwise (false, false).  So isBare
\* implies isRepo, and a missing HEAD, refs or objects alone makes the bare
\* signature fail.
C16_MarkersDecide ==
    output # <<>> =>
        LET m == input[1].markers
            r == output[1]
            regular == m.git = "dir"
            bare == m.HEAD # "absent" /\ m.refs = "dir" /\ m.objects = "dir"
        IN  /\ (r.isRepo /\ ~r.isBare) <=> regular
            /\ (r.isRepo /\ r.isBare) <=> (~regular /\ bare)
            /\ (~r.isRepo /\ ~r.isBare) <=> (~regular /\ ~bare)
            /\ r.isBare => r.isRepo
            /\ (m.HEAD = "absent" \/ m.refs = "absent" \/ m.objects = "absent")
                   => ~r.isBare

\* C16 witness: IsGitRepository has returned (true, true) for a directory
\* in which .git is a file and HEAD, refs and objects make the bare
\* signature.
C16_Witness ==
    /\ output # <<>>
    /\ input[1].markers.git = "file"
    /\ input[1].markers.HEAD # "absent"
    /\ output[1] = [isRepo |-> TRUE, isBare |-> TRUE]

(***************************************************************************)
(* The tree package: Build and Format.                                     *)
(***************************************************************************)

\* the name "." that DefaultFormatOptions gives the root
DotLabel == 0

\* DefaultFormatOptions
DefaultFormatOptions == [ShowRoot |-> TRUE, RootLabel |-> DotLabel]

\* a Repository with the path and the name of place n and nothing else set
\* (the zero value of the other fields)
RepositoryAt(path, name) ==
    [Path |-> path, Name |-> name, IsBare |-> FALSE, IsSymlink |-> FALSE,
     GitStatus |-> <<>>, Error |-> "", HasTimeout |-> FALSE]

\* a TreeNode with no children, as insertIntoTree makes it
NewNode(repo, relPath) ==
    [Repository |-> repo, Depth |-> 0, IsLast |-> FALSE, Children |-> <<>>,
     RelativePath |-> relPath]

\* the index of the first child of node whose name is part, 0 if none
FindChild(node, part) ==
    LET hits == {i \in DOMAIN node.Children :
                     node.Children[i].Repository.Name = part}
    IN  IF hits = {} THEN 0
        ELSE CHOOSE i \in hits : \A j \in hits : i <= j

\* insertIntoTree from its i-th path segment on: current is the node the
\* walk has come to, currentPath its path
RECURSIVE InsertFrom(_, _, _, _, _, _)
InsertFrom(current, repo, relPath, parts, i, currentPath) ==
    IF i > Len(parts) - 1
    THEN [current EXCEPT !.Children = Append(@, NewNode(repo, relPath))]
    ELSE LET part == parts[i]
             path == Append(currentPath, part)
             k == FindChild(current, part)
         IN  IF k # 0
             THEN [current EXCEPT !.Children[k] =
                      InsertFrom(@, repo, relPath, parts, i + 1, path)]
             ELSE [current EXCEPT !.Children =
                      Append(@, InsertFrom(
                                    NewNode(RepositoryAt(path, part),
                                            SubSeq(parts, 1, i)),
                                    repo, relPath, parts, i + 1, path))]

\* insertIntoTree; the segments of "." are the one segment "."
insertIntoTree(root, repo, relPath, rootPath) ==
    InsertFrom(root, repo, relPath, relPath, 1, rootPath)

\* sortTree
RECURSIVE sortTree(_)
sortTree(node) ==
    LET sorted == SortChildren(node.Children)
    IN  [node EXCEPT !.Children =
            [i \in 1..Len(sorted) |->
                sortTree([sorted[i] EXCEPT !.Depth = node.Depth + 1])]]

\* the loop of Build over repoList, from the i-th repository on
RECURSIVE InsertAll(_, _, _, _)
InsertAll(root, repoList, i, rootPath) ==
    IF i > Len(repoList) THEN root
    ELSE InsertAll(insertIntoTree(root, repoList[i], Rel(rootPath, repoList[i].Path),
                                  rootPath),
                   repoList, i + 1, rootPath)

\* Build; the options fo are <<>> for nil, else <<FormatOptions>>
Build(rootPath, repoList, fo) ==
    LET o == IF fo = <<>> THEN DefaultFormatOptions ELSE fo[1]
        root == [Repository |-> RepositoryAt(rootPath, o.RootLabel),
                 Depth |-> 0, IsLast |-> FALSE, Children |-> <<>>,
                 RelativePath |-> <<o.RootLabel>>]
    IN  sortTree(InsertAll(root, repoList, 1, rootPath))

\* GitStatus.Format, were it to write the change marker before the stash
\* marker
GitStatus_Format_changesFirst(g) ==
    LET branch == <<g.Branch>>
        indicators ==
        (IF g.HasRemote
         THEN (IF g.Ahead > 0 THEN <<[mark |-> "ahead", n |-> g.Ahead]>>
                              ELSE <<>>)
              \o (IF g.Behind > 0 THEN <<[mark |-> "behind", n |-> g.Behind]>>
                                  ELSE <<>>)
         ELSE <<[mark |-> "no remote", n |-> 0]>>)
        \o (IF g.HasChanges THEN <<[mark |-> "*", n |-> 0]>> ELSE <<>>)
        \o (IF g.HasStashes THEN <<[mark |-> "$", n |-> 0]>> ELSE <<>>)
    IN  [branch |-> branch[1],
         separator |-> Len(branch) + Len(indicators) # 1,
         indicators |-> indicators,
         error |-> g.Error # ""]

\* GitStatus.Format with colors disabled: the branch label, whether the
\* separator is written (the parts are the branch and the indicators, and
\* it is written unless the branch is the only part), the indicators in
\* their order, and whether " error" is appended
GitStatus_Format(g) ==
    LET branch == <<g.Branch>>
        indicators ==
        (IF g.HasRemote
         THEN (IF g.Ahead > 0 THEN <<[mark |-> "ahead", n |-> g.Ahead]>>
                              ELSE <<>>)
              \o (IF g.Behind > 0 THEN <<[mark |-> "behind", n |-> g.Behind]>>
                                  ELSE <<>>)
         ELSE <<[mark |-> "no remote", n |-> 0]>>)
        \o (IF g.HasStashes THEN <<[mark |-> "$", n |-> 0]>> ELSE <<>>)
        \o (IF g.HasChanges THEN <<[mark |-> "*", n |-> 0]>> ELSE <<>>)
    IN  [branch |-> branch[1],
         separator |-> Len(branch) + Len(indicators) # 1,
         indicators |-> indicators,
         error |-> g.Error # ""]

\* the branch names whose text contains "bare"; no marker and no " error"
\* does
BareInText == {"bare"}

\* strings.Contains(GitStatus.Format(), "bare")
ContainsBare(g) == g.Branch \in BareInText

\* formatNode, were it to write the connector of a child that is not the
\* last one for every node
NodeLine_midConnector(node, prefix, isLast) ==
    LET r == node.Repository
    IN  [kind |-> "node",
         prefix |-> prefix,
         connector |-> "|-- ",
         name |-> r.Name,
         status |-> IF r.GitStatus # <<>>
                    THEN <<GitStatus_Format(r.GitStatus[1])>> ELSE <<>>,
         marks |->
            (IF r.Error # "" /\ r.GitStatus = <<>> THEN <<" error">> ELSE <<>>)
            \o (IF r.HasTimeout /\ r.GitStatus # <<>>
                   /\ r.GitStatus[1].Error # ""
                THEN <<" timeout">> ELSE <<>>)
            \o (IF r.IsBare /\ r.GitStatus # <<>>
                   /\ ~ContainsBare(r.GitStatus[1])
                THEN <<" bare">> ELSE <<>>)]

\* the line formatNode writes for node: the prefix as the list of its
\* four-character columns, the connector, the name, the formatted status
\* (<<>> without one) and the indicators after it.  The box-drawing
\* characters are written in ASCII: "|-- " and "L-- " are the connectors of
\* a child that is not, and that is, the last one, "|   " is the column
\* with the vertical bar
NodeLine(node, prefix, isLast) ==
    LET r == node.Repository
    IN  [kind |-> "node",
         prefix |-> prefix,
         connector |-> IF isLast THEN "L-- " ELSE "|-- ",
         name |-> r.Name,
         status |-> IF r.GitStatus # <<>>
                    THEN <<GitStatus_Format(r.GitStatus[1])>> ELSE <<>>,
         marks |->
            (IF r.Error # "" /\ r.GitStatus = <<>> THEN <<" error">> ELSE <<>>)
            \o (IF r.HasTimeout /\ r.GitStatus # <<>>
                   /\ r.GitStatus[1].Error # ""
                THEN <<" timeout">> ELSE <<>>)
            \o (IF r.IsBare /\ r.GitStatus # <<>>
                   /\ ~ContainsBare(r.GitStatus[1])
                THEN <<" bare">> ELSE <<>>)]

\* formatNode: the lines of node and of everything beneath it
RECURSIVE formatNode(_, _, _)
formatNode(node, prefix, isLast) ==
    LET childPrefix == Append(prefix, IF isLast THEN "    " ELSE "|   ")
        RECURSIVE Below(_)
        Below(i) == IF i > Len(node.Children) THEN <<>>
                    ELSE formatNode(node.Children[i], childPrefix,
                                    i = Len(node.Children)) \o Below(i + 1)
    IN  <<NodeLine(node, prefix, isLast)>> \o Below(1)

\* the line Format writes for the root
RootLine(label) ==
    [kind |-> "root", prefix |-> <<>>, connector |-> "", name |-> label,
     status |-> <<>>, marks |-> <<>>]

\* Format: the lines of its text; the options fo are <<>> for nil, else <<FormatOptions>>
Format(root, fo) ==
    LET o == IF fo = <<>> THEN DefaultFormatOptions ELSE fo[1]
        head == IF o.ShowRoot THEN <<RootLine(o.RootLabel)>> ELSE <<>>
        RECURSIVE Below(_)
        Below(i) == IF i > Len(root.Children) THEN <<>>
                    ELSE formatNode(root.Children[i], <<>>,
                                    i = Len(root.Children)) \o Below(i + 1)
    IN  IF Len(root.Children) = 0 THEN head ELSE head \o Below(1)

(***************************************************************************)
(* Build and Format called on a list of repositories.                      *)
(***************************************************************************)

\* the Repository Scan records for a regular repository at place n
TreeRepository(n) == RepositoryAt(Path(n), Base(n))

RECURSIVE ListsOver(_)
\* the lists that hold each place of a set once, in every order
ListsOver(places) ==
    IF places = {} THEN {<<>>}
    ELSE UNION {{<<n>> \o l : l \in ListsOver(places \ {n})} : n \in places}

\* the lists of repositories Build is given: places at or beneath the root,
\* none twice, in any order
RepositoryLists ==
    UNION {{[i \in DOMAIN l |-> TreeRepository(l[i])] : l \in ListsOver(ps)} :
              ps \in SUBSET Nodes}

\* the FormatOptions Build and Format are given: nil, the defaults, the
\* root hidden, another label
FormatOptionsGiven ==
    {<<>>, <<DefaultFormatOptions>>,
     <<[DefaultFormatOptions EXCEPT !.ShowRoot = FALSE]>>,
     <<[DefaultFormatOptions EXCEPT !.RootLabel = Root]>>}

InitTree ==
    /\ InitCall({{}}, {CleanRepo}, {0})
    /\ ScanIdle
    /\ input \in [rootPath : {Path(Root)}, repos : RepositoryLists,
                  opts : FormatOptionsGiven]
    /\ output = <<>>

\* the call Build(rootPath, repos, opts) and its return
CallBuild ==
    /\ input # <<>>
    /\ output = <<>>
    /\ output' = <<Build(input.rootPath, input.repos, input.opts)>>
    /\ UNCHANGED <<ctxErr, batchVars, scanVars, input>>

\* the call Format(root, opts) on the tree Build returned, and its return
CallFormat ==
    /\ Len(output) = Len(<<input>>)
    /\ output' = Append(output, Format(output[1], input.opts))
    /\ UNCHANGED <<ctxErr, batchVars, scanVars, input>>

NextTree ==
    \/ CallBuild
    \/ CallFormat

SpecTree == InitTree /\ [][NextTree]_vars

(***************************************************************************)
(* Properties of Build and Format.                                         *)
(***************************************************************************)

\* the orderings of a list
Orderings(list) ==
    {[i \in DOMAIN list |-> list[f[i]]] : f \in Permutations(DOMAIN list)}

\* C17: Build does not depend on the order of the repository list: every
\* ordering of the same repositories gives the same tree, children in the
\* same order at every node, and so the same text from Format.
C17_BuildOrderIndependent ==
    Len(output) = Len(<<input, input>>) =>
        \A l \in Orderings(input.repos) :
            /\ Build(input.rootPath, l, input.opts) = output[1]
            /\ Format(Build(input.rootPath, l, input.opts), input.opts)
                   = output[2]

RECURSIVE WellShaped(_)
\* beneath node every child is one level deeper than its parent, the
\* children of every node are in non-decreasing order of name, and of the
\* children of every node the last one, and only it, has IsLast set
WellShaped(node) ==
    \A i \in DOMAIN node.Children :
        /\ node.Children[i].Depth = node.Depth + 1
        /\ node.Children[i].IsLast <=> (i = Len(node.Children))
        /\ i > 1 => node.Children[i - 1].Repository.Name
                        <= node.Children[i].Repository.Name
        /\ WellShaped(node.Children[i])

\* C18: in every tree Build returns the root has Depth 0, every child has
\* the Depth of its parent plus one, the children of every node are in
\* non-decreasing order of Repository.Name, and among the children of every
\* node exactly the last has IsLast = true.
C18_TreeWellShaped ==
    output # <<>> => (output[1].Depth = 0 /\ WellShaped(output[1]))

\* C18 witness: Build has returned a tree for a list given in decreasing
\* order of name, whose root has two children, one of them with a child of
\* its own.
C18_Witness ==
    /\ output # <<>>
    /\ Len(input.repos) > 1
    /\ input.repos[1].Name > input.repos[Len(input.repos)].Name
    /\ Len(output[1].Children) > 1
    /\ \E i \in DOMAIN output[1].Children :
           output[1].Children[i].Children # <<>>

RECURSIVE CountAt(_, _)
\* the number of nodes beneath node whose Repository has path p
CountAt(node, p) ==
    LET RECURSIVE Sum(_)
        Sum(i) == IF i > Len(node.Children) THEN 0
                  ELSE (IF node.Children[i].Repository.Path = p THEN 1 ELSE 0)
                       + CountAt(node.Children[i], p) + Sum(i + 1)
    IN  Sum(1)

RECURSIVE AtChain(_, _, _)
\* a node for repo is found beneath node by going down the path segments
\* from the i-th on, through children of those names
AtChain(node, repo, i) ==
    LET rel == Rel(input.rootPath, repo.Path)
    IN  IF i > Len(rel) THEN node.Repository = repo
        ELSE \E k \in DOMAIN node.Children :
                 /\ node.Children[k].Repository.Name = rel[i]
                 /\ AtChain(node.Children[k], repo, i + 1)

\* C19: each repository given to Build is exactly one node of the tree, at
\* the chain of its relative path segments, and there is at most one node
\* for a path (a synthetic node only for a path no repository has),
\* whatever the order of a repository and a repository beneath it.
C19_OneNodePerPath ==
    output # <<>> =>
        /\ \A i \in DOMAIN input.repos :
               /\ CountAt(output[1], input.repos[i].Path) = 1
               /\ input.repos[i].Path # input.rootPath =>
                      AtChain(output[1], input.repos[i], 1)
        /\ \A n \in Nodes : CountAt(output[1], Path(n)) <= 1

\* a line that carries the "no repositories found" message: Format has no
\* such line, its lines are the root label and the node lines
IsMessageLine(line) == line.kind \notin {"root", "node"}

\* C20: Format applied to a tree whose root has no children returns exactly
\* one line, the "no repositories found" message, for every FormatOptions
\* value, and never an empty text or a bare tree drawing.
C20_EmptyTreeMessage ==
    (Len(output) = Len(<<input, input>>) /\ output[1].Children = <<>>) =>
        /\ Len(output[2]) = 1
        /\ IsMessageLine(output[2][1])

(***************************************************************************)
(* Properties of the text Format writes.                                   *)
(***************************************************************************)

RECURSIVE Positions(_)
\* the positions of the nodes beneath node: a position is the sequence of
\* child indices that leads from node down to the node it names
Positions(node) ==
    UNION {{<<i>>} \cup {<<i>> \o p : p \in Positions(node.Children[i])} :
              i \in DOMAIN node.Children}

RECURSIVE NodeAt(_, _)
\* the node at position p beneath node
NodeAt(node, p) ==
    IF p = <<>> THEN node ELSE NodeAt(node.Children[Head(p)], Tail(p))

\* the position p[1..j]
Upto(p, j) == SubSeq(p, 1, j)

\* the node at p[1..j] is the last child of its parent
LastSibling(root, p, j) == p[j] = Len(NodeAt(root, Upto(p, j - 1)).Children)

RECURSIVE Before(_, _)
\* position p comes before position q depth first in child order: p is a
\* proper ancestor of q, or p turns to an earlier child where they part
Before(p, q) ==
    IF q = <<>> THEN FALSE
    ELSE IF p = <<>> THEN TRUE
    ELSE IF Head(p) # Head(q) THEN Head(p) < Head(q)
    ELSE Before(Tail(p), Tail(q))

\* the lines of a text that are node lines
NodeLines(text) == SelectSeq(text, LAMBDA l : l.kind = "node")

\* C21: for every non-empty tree Format emits the nodes depth first in child
\* order, exactly one line per node below the root: the line is prefix,
\* connector, name, the connector being the last-sibling one exactly for the
\* last child of its parent, and the prefix having, for each ancestor below
\* the root, four blanks if that ancestor is a last sibling and the
\* vertical-bar column if it is not.
C21_LinesDepthFirst ==
    (Len(output) = Len(<<input, input>>) /\ output[1].Children # <<>>) =>
        LET root == output[1]
            lines == NodeLines(output[2])
            pos == Positions(root)
        IN  /\ Len(lines) = Cardinality(pos)
            /\ \A p \in pos :
                 LET k == Cardinality({q \in pos : Before(q, p)}) + 1
                     line == lines[k]
                 IN  /\ line.name = NodeAt(root, p).Repository.Name
                     /\ line.connector = (IF LastSibling(root, p, Len(p))
                                          THEN "L-- " ELSE "|-- ")
                     /\ Len(line.prefix) = Len(p) - 1
                     /\ \A j \in 1..(Len(p) - 1) :
                            line.prefix[j] = (IF LastSibling(root, p, j)
                                              THEN "    " ELSE "|   ")

\* C21 witness: Format has returned the text of a tree whose root has more
\* than one child, the first of them with children of its own, and the text
\* has the line of a last child beneath the vertical-bar column.
C21_Witness ==
    /\ Len(output) = Len(<<input, input>>)
    /\ Len(output[1].Children) > 1
    /\ output[1].Children[1].Children # <<>>
    /\ \E k \in DOMAIN output[2] :
           /\ output[2][k].kind = "node"
           /\ output[2][k].prefix = <<"|   ">>
           /\ output[2][k].connector = "L-- "

(***************************************************************************)
(* GitStatus.Format called on its own, for every Status value.             *)
(***************************************************************************)

\* the branch labels of the Status values: main, another branch, a detached
\* HEAD, and a branch whose name holds the word "bare"
BranchLabels == {"main", "feature", "DETACHED", "bare"}

\* the Status values GitStatus.Format is called on, valid or not
StatusValues ==
    [Branch : BranchLabels, IsDetached : {FALSE}, HasRemote : BOOLEAN,
     Ahead : -1..MaxCommits, Behind : -1..MaxCommits,
     HasStashes : BOOLEAN, HasChanges : BOOLEAN,
     Error : {"", "failed to get HEAD"}]

InitGitStatusFormat ==
    /\ InitCall({{}}, {CleanRepo}, {0})
    /\ ScanIdle
    /\ input \in {<<g>> : g \in StatusValues}
    /\ output = <<>>

\* the call g.Format() and its return
CallGitStatusFormat ==
    /\ input # <<>>
    /\ output = <<>>
    /\ output' = <<GitStatus_Format(input[1])>>
    /\ UNCHANGED <<ctxErr, batchVars, scanVars, input>>

SpecGitStatusFormat == InitGitStatusFormat /\ [][CallGitStatusFormat]_vars

\* the markers in the order the text must show them
MarkerOrder == <<"ahead", "behind", "no remote", "$", "*">>

\* the marker belongs to the text of g
Shown(g, mark) ==
    CASE mark = "ahead" -> g.HasRemote /\ g.Ahead > 0
      [] mark = "behind" -> g.HasRemote /\ g.Behind > 0
      [] mark = "no remote" -> ~g.HasRemote
      [] mark = "$" -> g.HasStashes
      [] mark = "*" -> g.HasChanges

\* the count written with the marker
CountOf(g, mark) ==
    CASE mark = "ahead" -> g.Ahead
      [] mark = "behind" -> g.Behind
      [] OTHER -> 0

\* C22: for every Status value GitStatus.Format (colors disabled) renders
\* the branch label first, then in this order the ahead marker with its
\* count iff HasRemote and Ahead > 0, the behind marker with its count iff
\* HasRemote and Behind > 0, the no-remote marker iff HasRemote is false,
\* the stash marker iff HasStashes, the change marker iff HasChanges; the
\* separator appears only when there is an indicator; " error" is appended
\* iff Error is non-empty.  On branch main with no remote and nothing else
\* set the text is the branch and the no-remote marker.
C22_StatusRendering ==
    output # <<>> =>
        LET g == input[1]
            text == output[1]
            shown == SelectSeq(MarkerOrder, LAMBDA m : Shown(g, m))
        IN  /\ text.branch = g.Branch
            /\ text.indicators =
                   [i \in DOMAIN shown |->
                       [mark |-> shown[i], n |-> CountOf(g, shown[i])]]
            /\ text.separator <=> (text.indicators # <<>>)
            /\ text.error <=> (g.Error # "")
            /\ g = [GitStatus EXCEPT !.Branch = "main"] =>
                   text = [branch |-> "main", separator |-> TRUE,
                           indicators |-> <<[mark |-> "no remote", n |-> 0]>>,
                           error |-> FALSE]

\* C22 witness: Format has returned the text of a Status with a remote that
\* is ahead and behind, has stashes, changes and an error: four indicators
\* and " error".
C22_Witness ==
    /\ output # <<>>
    /\ input[1].HasRemote /\ input[1].Ahead > 0 /\ input[1].Behind > 0
    /\ input[1].HasStashes /\ input[1].HasChanges /\ input[1].Error # ""
    /\ Len(output[1].indicators) = Len(<<1, 2, 3, 4>>)
    /\ output[1].error

(***************************************************************************)
(* Build and Format called on repositories that carry a Status, the bare   *)
(* flag, an error and the timeout flag.                                    *)
(***************************************************************************)

\* Repository.Validate: TRUE iff Validate returns nil.  A name is a place
\* and never empty.
Repository_Validate(r) ==
    /\ r.Path # <<>>
    /\ IsAbs(r.Path)
    /\ ~(r.IsBare /\ r.GitStatus # <<>> /\ r.GitStatus[1].HasChanges)

\* the Status values attached to the repositories rendered: on main or on a
\* branch named "bare", with or without changes, with or without an error
RenderStatuses ==
    {[GitStatus EXCEPT !.Branch = b, !.HasChanges = c, !.Error = e] :
        b \in {"main", "bare"}, c \in BOOLEAN, e \in {"", "timeout"}}

\* the repositories at place n: with a Status or without one, bare or not,
\* with an error or not, with the timeout flag or not
RenderRepositories(n) ==
    {[TreeRepository(n) EXCEPT !.IsBare = b, !.GitStatus = g, !.Error = e,
                               !.HasTimeout = t] :
        b \in BOOLEAN, g \in {<<>>} \cup {<<st>> : st \in RenderStatuses},
        e \in {"", "failed to open repository"}, t \in BOOLEAN}

\* the lists rendered: one such repository below the root, alone or
\* followed by a plain repository at another place
RenderLists ==
    UNION {{<<r>> : r \in RenderRepositories(n)}
           \cup {<<r, TreeRepository(m)>> :
                    r \in RenderRepositories(n), m \in Nodes \ {Root, n}} :
              n \in Nodes \ {Root}}

InitRender ==
    /\ InitCall({{}}, {CleanRepo}, {0})
    /\ ScanIdle
    /\ input \in [rootPath : {Path(Root)}, repos : RenderLists, opts : {<<>>}]
    /\ output = <<>>

SpecRender == InitRender /\ [][NextTree]_vars

\* the line of the text Format returned for the node at position p of the
\* tree Build returned
LineOf(p) ==
    NodeLines(output[2])[Cardinality({q \in Positions(output[1]) :
                                         Before(q, p)}) + 1]

\* the positions of the tree Build returned whose repository is bare
BarePositions ==
    {p \in Positions(output[1]) : NodeAt(output[1], p).Repository.IsBare}

\* the line carries the marker after the name and the status
HasMark(line, mark) == \E i \in DOMAIN line.marks : line.marks[i] = mark

\* C23: every node whose Repository has IsBare = true is rendered by Format
\* with the bare marker on its line, for every branch name and whether or
\* not a Status is attached to the repository.
C23_BareMarkerAlways ==
    Len(output) = Len(<<input, input>>) =>
        \A p \in BarePositions : HasMark(LineOf(p), " bare")

\* the formatted status shows the indicator
HasIndicator(text, mark) ==
    \E i \in DOMAIN text.indicators : text.indicators[i].mark = mark

\* the repositories on disk that open and have no working tree
BareOnDisk == {d \in StepRepos : d.open = "ok" /\ d.worktree = "bare"}

\* C24: a bare repository never reports working-tree changes: extraction of
\* a bare repository always yields HasChanges = false, Repository.Validate
\* returns an error for a Repository with IsBare = true whose Status has
\* HasChanges = true, and the rendered line of a bare repository never has
\* the change marker, even if its Status claims changes.
C24_BareNeverReportsChanges ==
    /\ \A d \in BareOnDisk : ~extractGitStatus(d).status[1].HasChanges
    /\ Len(output) = Len(<<input, input>>) =>
          \A p \in BarePositions :
              LET r == NodeAt(output[1], p).Repository
                  line == LineOf(p)
              IN  /\ (r.GitStatus # <<>> /\ r.GitStatus[1].HasChanges)
                         => ~Repository_Validate(r)
                  /\ line.status # <<>> => ~HasIndicator(line.status[1], "*")

(***************************************************************************)
(* cmd/gitree: Scan, ExtractBatch, the Status of each repository attached, *)
(* Build, Format.                                                          *)
(***************************************************************************)

\* opts.MaxConcurrency as cmd/gitree sets it
maxConcurrentRequests == 10

\* a repository on disk that has no working tree
BareRepo == [CleanRepo EXCEPT !.worktree = "bare"]

\* what the current directory holds: each of its two first entries is
\* missing, a regular repository, a bare repository, or a directory that
\* cannot be read
MainStructures ==
    {f \in [Nodes -> {Absent, Dir(NoMarkers, "ok"), Dir(GitMarkers, "ok"),
                      Dir(BareMarkers, "ok"), Dir(NoMarkers, "denied")}] :
        /\ f[Root] = Dir(NoMarkers, "ok")
        /\ \A n \in Nodes \ {Root} :
               /\ n \in Entries(Root) => f[n] # Dir(NoMarkers, "ok")
               /\ n \notin Entries(Root) => f[n] = Absent}

\* the program before main calls Scan on the current directory
InitMain ==
    /\ repos = {}
    /\ disk = <<>>
    /\ MaxConcurrency = maxConcurrentRequests
    /\ ctxErr = ""
    /\ mpc = "idle"
    /\ wpc = <<>>
    /\ ipc = <<>>
    /\ unitErr = <<>>
    /\ resultChan = <<>>
    /\ errorChan = <<>>
    /\ ret = <<>>
    /\ semaphore = 0
    /\ wg = 0
    /\ results = <<>>
    /\ closed = FALSE
    /\ statuses = <<>>
    /\ early = <<>>
    /\ opts = [RootPath |-> Path(Root)]
    /\ fs \in MainStructures
    /\ ident = OwnInodes
    /\ spc = "start"
    /\ s = NoScanner
    /\ stack = <<>>
    /\ walkErr = ""
    /\ scanResult = <<>>
    /\ scanErr = ""
    /\ examined = <<>>
    /\ CallIdle

\* the deadline of the context main makes passes, before main is through
MainDeadline ==
    /\ ctxErr = ""
    /\ output = <<>>
    /\ ctxErr' = ErrDeadline
    /\ unitErr' = [p \in repos |->
          IF wpc[p] = "select" /\ unitErr[p] = "" THEN ErrDeadline
          ELSE unitErr[p]]
    /\ UNCHANGED <<repos, disk, MaxConcurrency, mpc, wpc, ipc, resultChan,
                   errorChan, ret, semaphore, wg, results, closed, statuses,
                   early,
                   scanVars, callVars>>

\* Scan returned an error: main reports it and exits with code 1
MainExitScanFailed ==
    /\ spc = "done"
    /\ scanErr # ""
    /\ output = <<>>
    /\ output' = <<[exitCode |-> 1, text |-> <<>>]>>
    /\ UNCHANGED <<ctxErr, batchVars, scanVars, input>>

\* Scan found no repository: main prints the message and exits with code 0
MainExitNoRepositories ==
    /\ spc = "done"
    /\ scanErr = ""
    /\ scanResult[1].Repositories = <<>>
    /\ output = <<>>
    /\ output' = <<[exitCode |-> 0,
                    text |-> <<[kind |-> "message"]>>]>>
    /\ UNCHANGED <<ctxErr, batchVars, scanVars, input>>

\* the key of a repository in repoMap: its path, which is the path of the
\* place its last segment names
PathKey(r) == r.Path[Len(r.Path)]

\* main makes repoMap and calls ExtractBatch with it; what each repository
\* holds on disk is found when it is opened
MainExtractBatch ==
    /\ spc = "done"
    /\ scanErr = ""
    /\ scanResult[1].Repositories # <<>>
    /\ mpc = "idle"
    /\ LET found == scanResult[1].Repositories
           keys == {PathKey(found[i]) : i \in DOMAIN found}
       IN  /\ repos' = keys
           /\ \E d \in [keys -> {CleanRepo, BareRepo, CorruptRepo}] :
                 /\ \A i \in DOMAIN found :
                        (d[PathKey(found[i])] = BareRepo) =>
                            found[i].IsBare
                 /\ \A i \in DOMAIN found :
                        (d[PathKey(found[i])] = CleanRepo) =>
                            ~found[i].IsBare
                 /\ disk' = d
           /\ wpc' = [p \in keys |-> "notStarted"]
           /\ ipc' = [p \in keys |-> "none"]
           /\ unitErr' = [p \in keys |-> ""]
           /\ resultChan' = [p \in keys |-> <<>>]
           /\ errorChan' = [p \in keys |-> <<>>]
           /\ ret' = [p \in keys |-> NoReturn]
           /\ early' = [p \in keys |-> FALSE]
    /\ mpc' = "start"
    /\ UNCHANGED <<MaxConcurrency, ctxErr, semaphore, wg, results, closed,
                   statuses, scanVars, callVars>>

\* the repositories main hands to Build: those of the scan result, each
\* with the Status ExtractBatch returned for its path, if it returned one
Populated ==
    LET found == scanResult[1].Repositories
    IN  [i \in DOMAIN found |->
            [RepositoryAt(found[i].Path, found[i].Name) EXCEPT
                !.IsBare = found[i].IsBare,
                !.IsSymlink = found[i].IsSymlink,
                !.GitStatus = IF PathKey(found[i]) \in DOMAIN statuses
                              THEN <<statuses[PathKey(found[i])]>>
                              ELSE <<>>]]

\* ExtractBatch has returned: main attaches the statuses, calls Build and
\* Format, prints the text and exits with code 0
MainRender ==
    /\ mpc = "returned"
    /\ output = <<>>
    /\ LET root == Build(opts.RootPath, Populated, <<>>)
       IN  output' = <<root, Format(root, <<>>)>>
    /\ UNCHANGED <<ctxErr, batchVars, scanVars, input>>

NextMain ==
    \/ MainDeadline
    \/ ScanStart
    \/ WalkEnter
    \/ WalkReadError
    \/ ScanFinish
    \/ MainExitScanFailed
    \/ MainExitNoRepositories
    \/ MainExtractBatch
    \/ ExtractBatchEnter
    \/ SpawnCloser
    \/ CloseResults
    \/ Collect
    \/ Return
    \/ \E p \in repos : Launch(p)
    \/ \E p \in repos : CheckCtx(p)
    \/ \E p \in repos : Acquire(p)
    \/ \E p \in repos : AcquireAbandon(p)
    \/ \E p \in repos : TimerFire(p)
    \/ \E p \in repos : GoExtract(p)
    \/ \E p \in repos : SelectResult(p)
    \/ \E p \in repos : SelectError(p)
    \/ \E p \in repos : SelectDone(p)
    \/ \E p \in repos : Send(p)
    \/ \E p \in repos : Release(p)
    \/ MainRender

SpecMain == InitMain /\ [][NextMain]_vars

\* the extraction of the repository with key p ran into its own timeout:
\* Extract returned the placeholder it makes when its context is done, and
\* the context of main never was
TimedOut(p) ==
    /\ ctxErr = ""
    /\ p \in DOMAIN statuses
    /\ statuses[p] = TimeoutStatus

\* C25: in the pipeline Scan, ExtractBatch, attaching each Status to its
\* Repository, Build, Format, every repository whose extraction exceeded
\* its per-unit timeout is rendered with the "timeout" marker at the end of
\* its line.
C25_TimeoutMarked ==
    Len(output) = Len(<<input, input>>) =>
        \A p \in Positions(output[1]) :
            LET r == NodeAt(output[1], p).Repository
                line == LineOf(p)
            IN  TimedOut(PathKey(r)) =>
                    /\ line.marks # <<>>
                    /\ line.marks[Len(line.marks)] = " timeout"

(***************************************************************************)
(* Further properties of Scan.                                             *)
(***************************************************************************)

\* the result of Scan lists a repository with the path of place n
Recorded(n) ==
    \E i \in DOMAIN scanResult[1].Repositories :
        scanResult[1].Repositories[i].Path = Path(n)

\* Scan walked to its end, undisturbed, and returned a result
WalkedThrough ==
    spc = "done" /\ ctxErr = "" /\ walkErr = "" /\ scanResult # <<>>

\* C26: when a Git repository directory contains another Git repository as
\* a subdirectory, Scan records both the outer and the inner repository as
\* separate entries of the repository list.
C26_NestedBothRecorded ==
    \A n \in Nodes \ {Root} :
        (WalkedThrough /\ ident = OwnInodes /\ Recorded(Parent(n))
             /\ fs[n].kind = "dir" /\ IsGitRepository(fs[n]).isRepo) =>
            Recorded(n)

\* the identity of directory n, device and inode number, is that of no
\* other directory
OwnIdentity(n) ==
    \A m \in Nodes \ {n} : fs[m].kind = "dir" => ident[m] # ident[n]

\* C27: the visited guard of Scan prunes a directory only if the same
\* underlying directory (same device and inode) was visited earlier in this
\* scan: two distinct underlying directories are never taken for one, so
\* every accessible directory with a repository marker that is not beneath
\* another recorded repository is in the repository list.
C27_PrunedOnlySameDirectory ==
    WalkedThrough =>
        /\ \A n \in Nodes :
               (Encountered(n) /\ fs[n].kind = "dir"
                    /\ \A j \in DOMAIN examined : examined[j] # n) =>
                   \E j \in DOMAIN examined : ident[examined[j]] = ident[n]
        /\ \A n \in Nodes :
               (/\ fs[n].kind = "dir"
                /\ IsGitRepository(fs[n]).isRepo
                /\ \A a \in Nodes :
                       Beneath(n, a) =>
                           /\ OwnIdentity(a)
                           /\ a # n => ~IsGitRepository(fs[a]).isRepo) =>
                   Recorded(n)

(***************************************************************************)
(* Extract called with a context that is done already, or is not.          *)
(***************************************************************************)

\* Extract is about to be called for one repository, through the worker of
\* a batch of one path that has passed its first check of the context; the
\* context is done by then, or not
InitExtractCall ==
    /\ repos = {1}
    /\ disk \in [repos -> StepRepos]
    /\ MaxConcurrency = 1
    /\ ctxErr \in {""} \cup ContextErrors
    /\ mpc = "collect"
    /\ wpc = [p \in repos |-> "acquire"]
    /\ ipc = [p \in repos |-> "none"]
    /\ unitErr = [p \in repos |-> ""]
    /\ resultChan = [p \in repos |-> <<>>]
    /\ errorChan = [p \in repos |-> <<>>]
    /\ ret = [p \in repos |-> NoReturn]
    /\ semaphore = 0
    /\ wg = Cardinality(repos)
    /\ results = <<>>
    /\ closed = FALSE
    /\ statuses = <<>>
    /\ early = [p \in repos |-> FALSE]
    /\ ScanIdle
    /\ CallIdle

\* the steps of one call of Extract, up to its return; the context stays as
\* it is at the call, only the timeout of the call itself can expire
NextExtractCall ==
    \/ \E p \in repos : Acquire(p)
    \/ \E p \in repos : TimerFire(p)
    \/ \E p \in repos : GoExtract(p)
    \/ \E p \in repos : SelectResult(p)
    \/ \E p \in repos : SelectError(p)
    \/ \E p \in repos : SelectDone(p)

SpecExtractCall == InitExtractCall /\ [][NextExtractCall]_vars

\* C28: if the context passed to Extract is already cancelled or past its
\* deadline when Extract is called, then in every interleaving of the
\* extraction goroutine with the waiting select Extract returns a non-nil
\* error with a Status whose Error is non-empty; and whenever Extract
\* returns a non-nil error the Status is non-nil and has a non-empty Error.
C28_DoneContextGivesError ==
    \A p \in repos :
        wpc[p] = "send" =>
            /\ ctxErr # "" =>
                   /\ ret[p].err # ""
                   /\ ret[p].status # <<>>
                   /\ ret[p].status[1].Error # ""
            /\ ret[p].err # "" =>
                   /\ ret[p].status # <<>>
                   /\ ret[p].status[1].Error # ""

\* C29: context termination during Scan is a fatal error: whenever the
\* context is cancelled or its deadline expires before the traversal
\* finishes, so that the walk is ended by it, Scan returns a non-nil error
\* and no ScanResult, for a cancellation as for a deadline.
C29_ContextEndFatal ==
    (spc = "done" /\ walkErr \in ContextErrors) =>
        (scanErr # "" /\ scanResult = <<>>)

(***************************************************************************)
(* The results collection of ExtractBatch.                                 *)
(***************************************************************************)

\* the workers that have returned
Finished(p) == wpc[p] \in {"done", "abandoned"}

\* the results in the channel that worker p sent
SentBy(p) == {i \in DOMAIN results : results[i].path = p}

\* the results channel and the map as they may be: a worker that is about
\* to send finds the channel open and with room; every result in the
\* channel was sent by the worker of its path, which sent one only and is
\* past its send; a path whose result is still in the channel is not in the
\* map; the keys of the map are input paths; a closed channel means every
\* worker has returned
ResultsSafe ==
    /\ \A p \in repos :
           /\ wpc[p] = "send" => (~closed /\ Len(results) < Cardinality(repos))
           /\ Cardinality(SentBy(p)) <= 1
           /\ SentBy(p) # {} =>
                  (wpc[p] \in {"release", "done"} /\ p \notin DOMAIN statuses)
           /\ p \in DOMAIN statuses => wpc[p] \in {"release", "done"}
    /\ \A i \in DOMAIN results : results[i].path \in repos
    /\ DOMAIN statuses \subseteq repos
    /\ closed => \A p \in repos : Finished(p)

\* one step of the program with respect to the results collection: a
\* result is added only by the worker of its path as it passes its send,
\* which it does not come back to; the channel is closed once, when every
\* worker has returned, and never opened again; the map is written only by
\* the caller in its collecting loop, with the path of the result it takes
\* from the channel, and an entry once written stays as it is; the map of
\* repositories handed in is left as it is
ResultsStep ==
    /\ \A p \in repos :
           /\ (Len(results') > Len(results) /\ SentBy(p)' # SentBy(p)) =>
                  (wpc[p] = "send" /\ wpc'[p] = "release")
           /\ (wpc[p] \in {"release", "done", "abandoned"}) => wpc'[p] # "send"
    /\ closed' # closed =>
           (~closed /\ closed' /\ \A p \in repos : Finished(p))
    /\ statuses' # statuses =>
           /\ mpc = "collect"
           /\ results # <<>>
           /\ results' = Tail(results)
           /\ DOMAIN statuses' = DOMAIN statuses \cup {Head(results).path}
           /\ statuses'[Head(results).path] = Head(results).status[1]
    /\ \A p \in DOMAIN statuses :
           p \in DOMAIN statuses' /\ statuses'[p] = statuses[p]
    /\ repos' = repos

\* C30: in every interleaving of ExtractBatch the results collection is
\* used safely: each worker sends at most one result, a send never blocks
\* and never happens after the results channel is closed, the channel is
\* closed exactly once and only after all workers have finished, the result
\* map is written only by the single collecting caller with keys that are
\* input paths, no path's Status is written by more than one unit, and the
\* repositories handed in are not modified.
C30_ResultsCollectedSafely == []ResultsSafe /\ [][ResultsStep]_vars

\* C30 witness: ExtractBatch has returned the statuses of more than one
\* path, each sent by its own worker, after the channel was closed.
C30_Witness ==
    /\ mpc = "returned"
    /\ closed
    /\ Cardinality(repos) > 1
    /\ DOMAIN statuses = repos
    /\ \A p \in repos : wpc[p] = "done"

====
